---- MODULE Spec2Model ----
(***************************************************************************)
(* Order lifecycle and financial settlement engine of the storefront:      *)
(* cart checkout, order status transitions, cancellation with stock        *)
(* restore, cashback processing and the wallet ledger.                     *)
(*                                                                         *)
(* The service layer (orderService, walletService, cashbackService,        *)
(* storeService, the orders/create route) is modelled statement by         *)
(* statement: every awaited store call is one step of a caller, so that    *)
(* concurrent callers interleave at exactly the points where the code      *)
(* suspends.  The stored procedures the services call through rpc() are    *)
(* single transactions and therefore single steps.                         *)
(*                                                                         *)
(* Money is counted in integer units.                                      *)
(***************************************************************************)
EXTENDS Integers, Sequences, FiniteSets, TLC

\* ------------------------------------------------------------------ bounds

\* largest quantity of one cart line
MaxQty == 2
\* stock every product starts with (the N of the oversell property)
InitStock == 2
\* orders after which no further checkout is started
MaxOrders == 2
\* orders placed in one run of a lifecycle scenario
MaxSeqOrders == 1
\* cancellations started in one run of a sequential scenario
MaxCalls == 3
\* status changes, checkouts and cancellations started in one run of a concurrent scenario
MaxRaceCalls == 4
\* largest amount of a wallet credit or debit request
MaxAmount == 2
\* requests sent to the order-creation route in one run
MaxRequests == 2
MaxDay == 1

Procs == {1, 2}
Users == {"alice", "bob"}
Products == {"X", "Y"}
ProductOrder == <<"X", "Y">>

\* products.mrp, fixed catalog data
mrp == [p \in Products |-> IF p = "X" THEN 20 ELSE 40]

OrderStatuses == {"CREATED", "PAID", "SHIPPED", "DELIVERED", "CANCELLED", "RETURNED"}

VARIABLES
  stock,        \* products.stock
  cart,         \* cart_items: quantity per (user, product), 0 = no line
  orders,       \* orders rows, in insertion order; the id is the index
  wallets,      \* wallets per user: rows (number of wallet rows), exists, balance
  txs,          \* wallet_transactions rows, in insertion order
  cashbacks,    \* cashback rows, in insertion order
  settlements,  \* vendor_settlements rows, in insertion order; the id is the index
  responses,    \* responses returned by POST /api/orders/create
  pc,           \* position of each caller inside the call it is running
  loc,          \* local variables of the call each caller is running
  ncalls        \* calls started so far

vars == <<stock, cart, orders, wallets, txs, cashbacks, settlements, responses, pc, loc, ncalls>>

\* ------------------------------------------------------------------ helpers

RECURSIVE SumSeq(_)
SumSeq(s) == IF s = <<>> THEN 0 ELSE Head(s) + SumSeq(Tail(s))

\* quantity of product p over the lines of items
Demand(items, p) ==
  SumSeq([i \in 1..Len(items) |-> IF items[i].product_id = p THEN items[i].quantity ELSE 0])

\* sum of price x quantity over the lines of items
LineTotal(items) ==
  SumSeq([i \in 1..Len(items) |-> items[i].price * items[i].quantity])

NoLoc ==
  [op |-> "none", user |-> "none", order |-> 0, status |-> "none",
   items |-> <<>>, total |-> 0, data |-> 0, read_status |-> "none",
   idx |-> 0, amount |-> 0, balance |-> 0, cb |-> 0, stock0 |-> <<>>,
   given0 |-> FALSE, row0 |-> "none", effects |-> {}, result |-> "none"]

Free(p) == pc[p] \in {"idle", "done"}

\* a caller enters operation op with the local variables l
Begin(p, first, l) ==
  /\ Free(p)
  /\ pc' = [pc EXCEPT ![p] = first]
  /\ loc' = [loc EXCEPT ![p] = l]

\* a caller leaves its operation: it returns (result "ok", "null", "false") or
\* throws (the result names the error); what the call was and what it got back stay visible, the
\* working variables of the call are gone
Finish(p, l, res) ==
  /\ pc' = [pc EXCEPT ![p] = "done"]
  /\ loc' = [loc EXCEPT ![p] = [l EXCEPT !.result = res, !.items = <<>>, !.total = 0,
                                         !.balance = 0]]

\* the call of p has ended by throwing
Threw(p) == pc[p] = "done" /\ loc[p].result \notin {"none", "ok", "null", "false"}

\* the call counter of a run: a started call counts, a step of a running call does not
Counted(bound) == ncalls < bound /\ ncalls' = ncalls + 1

Goto(p, label, l) ==
  /\ pc' = [pc EXCEPT ![p] = label]
  /\ loc' = [loc EXCEPT ![p] = l]

Init ==
  /\ stock = [p \in Products |-> InitStock]
  /\ cart = [u \in Users |-> [p \in Products |-> 0]]
  /\ orders = <<>>
  /\ wallets = [u \in Users |-> [exists |-> FALSE, balance |-> 0, rows |-> 0]]
  /\ txs = <<>>
  /\ cashbacks = <<>>
  /\ settlements = <<>>
  /\ responses = {}
  /\ pc = [p \in Procs |-> "idle"]
  /\ loc = [p \in Procs |-> NoLoc]
  /\ ncalls = 0

\* ------------------------------------------------------------------ cart

\* storeService.addToCart: the line of (user, product) grows by quantity
AddToCart(u, prod, q) ==
  /\ cart[u][prod] + q <= MaxQty
  /\ cart' = [cart EXCEPT ![u][prod] = @ + q]
  /\ UNCHANGED <<stock, orders, wallets, txs, cashbacks, settlements, responses, pc, loc>>

\* addToCart step by step, for callers that race; the line asked for is kept in
\* items, the quantity of the line found in data (0: no line found)
StartAddToCart(p, u, prod, q) ==
  /\ Begin(p, "atc_read", [NoLoc EXCEPT !.op = "addToCart", !.user = u,
                                        !.items = <<[product_id |-> prod, quantity |-> q]>>])
  /\ UNCHANGED <<stock, cart, orders, wallets, txs, cashbacks, settlements, responses>>

\* lines 79-87: select the line of (user, product, variant)
AtcRead(p) ==
  /\ pc[p] = "atc_read"
  /\ LET existing == cart[loc[p].user][loc[p].items[1].product_id]
     IN  Goto(p, IF existing > 0 THEN "atc_update" ELSE "atc_insert",
              [loc[p] EXCEPT !.data = existing])
  /\ UNCHANGED <<stock, cart, orders, wallets, txs, cashbacks, settlements, responses, ncalls>>

\* lines 89-98: write existingItem.quantity + quantity into the line; .single()
\* makes an update of no row an error
AtcUpdate(p) ==
  /\ pc[p] = "atc_update"
  /\ LET u == loc[p].user
         line == loc[p].items[1]
     IN  IF cart[u][line.product_id] = 0
         THEN Finish(p, loc[p], "NoRowUpdated") /\ UNCHANGED cart
         ELSE /\ cart' = [cart EXCEPT ![u][line.product_id] = loc[p].data + line.quantity]
              /\ Finish(p, loc[p], "ok")
  /\ UNCHANGED <<stock, orders, wallets, txs, cashbacks, settlements, responses, ncalls>>

\* lines 100-113: insert the line (cart_items UNIQUE(user_id, product_id, variant_id))
AtcInsert(p) ==
  /\ pc[p] = "atc_insert"
  /\ LET u == loc[p].user
         line == loc[p].items[1]
     IN  IF cart[u][line.product_id] > 0
         THEN Finish(p, loc[p], "UniqueViolation") /\ UNCHANGED cart
         ELSE /\ cart' = [cart EXCEPT ![u][line.product_id] = line.quantity]
              /\ Finish(p, loc[p], "ok")
  /\ UNCHANGED <<stock, orders, wallets, txs, cashbacks, settlements, responses, ncalls>>

\* ------------------------------------------------------------------ store constraints

\* products.stock CHECK (stock >= 0)
StockCheck_NoCheck(s) == TRUE

StockCheck(s) == s >= 0

\* orders.total_amount CHECK (total_amount > 0)
TotalAmountCheck(t) == t > 0

\* ------------------------------------------------------------------ create_order

\* the create_order procedure accepts the call: every line's stock covers it
CreateOrderAccepts(items, total) ==
  /\ items # <<>>
  /\ TotalAmountCheck(total)
  /\ \A p \in Products : StockCheck(stock[p] - Demand(items, p))

\* create_order(p_user_id, p_items, p_total_amount, ...): one transaction that
\* takes the stock of every line and inserts the order in status CREATED
CreateOrderRpc(u, items, total) ==
  /\ CreateOrderAccepts(items, total)
  /\ stock' = [p \in Products |-> stock[p] - Demand(items, p)]
  /\ orders' = Append(orders, [user_id |-> u, items |-> items, total_amount |-> total,
                               order_status |-> "CREATED", cashback_given |-> FALSE])

\* ------------------------------------------------------------------ orderService.createOrderFromCart

\* products.is_approved (DEFAULT false): X is on sale, Y was listed by its
\* vendor and awaits the approval of an admin
is_approved == [p \in Products |-> p = "X"]

\* getUserCart: the user's cart lines joined with their products
GetUserCart(u) ==
  LET present == SelectSeq(ProductOrder, LAMBDA p : cart[u][p] > 0)
  IN  [i \in 1..Len(present) |->
         [product_id |-> present[i], quantity |-> cart[u][present[i]],
          mrp |-> mrp[present[i]], stock |-> stock[present[i]],
          is_approved |-> is_approved[present[i]]]]

\* the stock check of the loop over the cart lines: the line can be served
LineInStock(line) == ~(line.stock = 0 \/ line.stock < line.quantity)

\* the order items prepared from the cart lines
PrepareItems(cartItems) ==
  [i \in 1..Len(cartItems) |->
     [product_id |-> cartItems[i].product_id, quantity |-> cartItems[i].quantity,
      price |-> cartItems[i].mrp]]

\* totalAmount accumulated over the cart lines
CartTotal(cartItems) ==
  SumSeq([i \in 1..Len(cartItems) |-> cartItems[i].mrp * cartItems[i].quantity])

\* order rows that exist or are about to be inserted by a running checkout
OrdersUnderWay == Len(orders) + Cardinality({p \in Procs : pc[p] \in {"coc_read", "coc_rpc"}})

StartCreateOrderFromCart(p, u) ==
  /\ OrdersUnderWay < MaxOrders
  /\ Begin(p, "coc_read", [NoLoc EXCEPT !.op = "createOrderFromCart", !.user = u])
  /\ UNCHANGED <<stock, cart, orders, wallets, txs, cashbacks, settlements, responses>>

\* lines 21-53: read the cart, check stock line by line, prepare items and total
CocRead(p) ==
  /\ pc[p] = "coc_read"
  /\ LET cartItems == GetUserCart(loc[p].user)
     IN  IF cartItems = <<>>
         THEN Finish(p, loc[p], "CartEmpty")
         ELSE IF \E i \in 1..Len(cartItems) : ~LineInStock(cartItems[i])
         THEN Finish(p, loc[p], "InsufficientStock")
         ELSE Goto(p, "coc_rpc", [loc[p] EXCEPT !.items = PrepareItems(cartItems),
                                                !.total = CartTotal(cartItems)])
  /\ UNCHANGED <<stock, cart, orders, wallets, txs, cashbacks, settlements, responses, ncalls>>

\* line 85: data?.[0]?.order_id || '' (0 stands for the empty string)
orderId_Empty(data) == 0

orderId(data) == IF data = <<>> THEN 0 ELSE data[1].order_id

\* lines 76-79: rpc create_order succeeds and answers with the row of the new order
CocRpcOk(p) ==
  /\ pc[p] = "coc_rpc"
  /\ CreateOrderRpc(loc[p].user, loc[p].items, loc[p].total)
  /\ Goto(p, "coc_clear", [loc[p] EXCEPT !.data = orderId(<<[order_id |-> Len(orders) + 1]>>)])
  /\ UNCHANGED <<cart, wallets, txs, cashbacks, settlements, responses, ncalls>>

\* lines 76-79: rpc create_order is refused, the call throws
CocRpcRefused(p) ==
  /\ pc[p] = "coc_rpc"
  /\ ~CreateOrderAccepts(loc[p].items, loc[p].total)
  /\ Finish(p, loc[p], "RpcError")
  /\ UNCHANGED <<stock, cart, orders, wallets, txs, cashbacks, settlements, responses, ncalls>>

\* clearCart: delete every cart line of the user
ClearCart(u) == cart' = [cart EXCEPT ![u] = [p \in Products |-> 0]]

\* lines 81-87: the cart is cleared and the order id returned
CocClearOk(p) ==
  /\ pc[p] = "coc_clear"
  /\ ClearCart(loc[p].user)
  /\ Finish(p, loc[p], "ok")
  /\ UNCHANGED <<stock, orders, wallets, txs, cashbacks, settlements, responses, ncalls>>

\* lines 82, 186: the delete of clearCart fails and clearCart throws
CocClearFails(p) ==
  /\ pc[p] = "coc_clear"
  /\ Finish(p, loc[p], "ClearCartError")
  /\ UNCHANGED <<stock, cart, orders, wallets, txs, cashbacks, settlements, responses, ncalls>>

\* ------------------------------------------------------------------ storeService.createOrder

\* order data a caller of storeService.createOrder may pass
CallerItems ==
  {<<[product_id |-> "X", quantity |-> 1, price |-> pr]>> : pr \in {mrp[x] : x \in Products}}

CallerTotals == {mrp[x] : x \in Products}

\* storeService.createOrder: the caller's items and total go to create_order as they are
StoreCreateOrder(p, u, items, total) ==
  /\ OrdersUnderWay < MaxOrders
  /\ Begin(p, "done", [NoLoc EXCEPT !.op = "createOrder", !.user = u, !.items = items,
                                    !.total = total,
                                    !.data = IF CreateOrderAccepts(items, total)
                                             THEN Len(orders) + 1 ELSE 0,
                                    !.result = IF CreateOrderAccepts(items, total)
                                               THEN "ok" ELSE "RpcError"])
  /\ IF CreateOrderAccepts(items, total)
     THEN CreateOrderRpc(u, items, total)
     ELSE UNCHANGED <<stock, orders>>
  /\ UNCHANGED <<cart, wallets, txs, cashbacks, settlements, responses>>

\* ------------------------------------------------------------------ update_order_status

\* products.store_id and stores.user_id, fixed catalog data
store_id == [p \in Products |-> IF p = "X" THEN "s1" ELSE "s2"]

Vendors == {"v1", "v2", "v0"}

\* the store of a vendor, "none" for a vendor without store
StoreOf(v) == IF v = "v1" THEN "s1" ELSE IF v = "v2" THEN "s2" ELSE "none"

\* the legal transition table of the order state machine
LegalTransition_AnyForward(from, to) ==
  \/ from = "CREATED" /\ to \in {"PAID", "SHIPPED", "DELIVERED", "CANCELLED"}
  \/ from = "PAID" /\ to \in {"SHIPPED", "DELIVERED", "CANCELLED"}
  \/ from = "SHIPPED" /\ to \in {"DELIVERED", "RETURNED"}
  \/ from = "DELIVERED" /\ to = "RETURNED"

LegalTransition(from, to) ==
  \/ from = "CREATED" /\ to \in {"PAID", "CANCELLED"}
  \/ from = "PAID" /\ to \in {"SHIPPED", "CANCELLED"}
  \/ from = "SHIPPED" /\ to \in {"DELIVERED", "RETURNED"}
  \/ from = "DELIVERED" /\ to = "RETURNED"

\* the stores among the line items of an order
OrderStores(o) == {store_id[orders[o].items[i].product_id] : i \in 1..Len(orders[o].items)}

StoreOrder == <<"s1", "s2">>

\* stores.user_id: the vendor who owns a store
VendorOf(st) == IF st = "s1" THEN "v1" ELSE "v2"

\* the settlement rows of an order: one PENDING row per distinct store among its
\* line items
SettlementRows(o) ==
  LET present == SelectSeq(StoreOrder, LAMBDA st : st \in OrderStores(o))
  IN  [i \in 1..Len(present) |->
         [order_id |-> o, store_id |-> present[i], vendor_id |-> VendorOf(present[i]),
          status |-> "PENDING"]]

\* the transitions on which update_order_status computes the settlements
SettlesOn_ShippedToo(s) == s \in {"SHIPPED", "DELIVERED"}

SettlesOn(s) == s = "DELIVERED"

\* update_order_status(p_order_id, p_new_status, p_admin_notes) accepts the call
UpdateStatusAccepts(o, s) == LegalTransition(orders[o].order_status, s)

\* update_order_status: one transaction that validates the transition, applies it
\* and, on a transition into DELIVERED, inserts the settlements of the order
UpdateOrderStatusRpc_Retotal(o, s) ==
  /\ UpdateStatusAccepts(o, s)
  /\ orders' = [orders EXCEPT ![o].order_status = s, ![o].total_amount = 0]
  /\ settlements' =
       IF SettlesOn(s) THEN settlements \o SettlementRows(o) ELSE settlements

UpdateOrderStatusRpc(o, s) ==
  /\ UpdateStatusAccepts(o, s)
  /\ orders' = [orders EXCEPT ![o].order_status = s]
  /\ settlements' =
       IF SettlesOn(s) THEN settlements \o SettlementRows(o) ELSE settlements

\* ------------------------------------------------------------------ orderService.updateOrderStatus

\* the status values the signature of orderService.updateOrderStatus admits
RequestableStatuses == OrderStatuses

\* orders.order_status CHECK of the orders table
OrderStatusCheck(s) == s \in {"ORDER_PLACED", "PROCESSING", "SHIPPED", "DELIVERED", "CANCELLED"}

\* orderService.updateOrderStatus: one rpc; true on success, throws on error
UpdateOrderStatus(p, o, s) ==
  /\ o \in 1..Len(orders)
  /\ Begin(p, "done", [NoLoc EXCEPT !.op = "updateOrderStatus", !.order = o, !.status = s,
                                    !.read_status = orders[o].order_status,
                                    !.result = IF UpdateStatusAccepts(o, s)
                                               THEN "ok" ELSE "InvalidStatusTransition"])
  /\ IF UpdateStatusAccepts(o, s)
     THEN UpdateOrderStatusRpc(o, s)
     ELSE UNCHANGED <<orders, settlements>>
  /\ UNCHANGED <<stock, cart, wallets, txs, cashbacks, responses>>

\* ------------------------------------------------------------------ vendorService.updateOrderStatus

\* the order contains a product of the store
HasVendorProducts_AnyOrder(o, st) == TRUE

HasVendorProducts(o, st) == st \in OrderStores(o)

\* the status values a vendor may send: any string
VendorStatuses == OrderStatuses \cup {"PROCESSING"}

\* vendorService.updateOrderStatus: store lookup, ownership check, then the rpc
VendorUpdateOrderStatus(p, o, s, v) ==
  /\ o \in 1..Len(orders)
  /\ LET res == IF StoreOf(v) = "none" THEN "VendorStoreNotFound"
                ELSE IF ~HasVendorProducts(o, StoreOf(v)) THEN "NotAuthorized"
                ELSE IF ~UpdateStatusAccepts(o, s) THEN "InvalidStatusTransition"
                ELSE "ok"
     IN  /\ Begin(p, "done", [NoLoc EXCEPT !.op = "vendorUpdateOrderStatus", !.order = o,
                                           !.status = s, !.user = v,
                                           !.read_status = orders[o].order_status,
                                           !.result = res])
         /\ IF res = "ok"
            THEN UpdateOrderStatusRpc(o, s)
            ELSE UNCHANGED <<orders, settlements>>
  /\ UNCHANGED <<stock, cart, wallets, txs, cashbacks, responses>>

\* ------------------------------------------------------------------ vendorService.requestPayout

\* the settlement ids a vendor may send: those of rows that can exist and one more
SettlementIds == 1..(Len(StoreOrder) * MaxSeqOrders + 1)

\* lines 225-227: the filter of the update
PayoutMatches_AnyVendor(row, vendorId) == row.status = "PENDING"

PayoutMatches_AnyStatus(row, vendorId) == row.vendor_id = vendorId

PayoutMatches(row, vendorId) == row.vendor_id = vendorId /\ row.status = "PENDING"

\* requestPayout: one conditional update; .single() makes an update of no row an error
RequestPayout(p, sid, v) ==
  LET hit == sid <= Len(settlements) /\ PayoutMatches(settlements[sid], v)
  IN  /\ Begin(p, "done", [NoLoc EXCEPT !.op = "requestPayout", !.data = sid, !.user = v,
                                        !.row0 = IF sid <= Len(settlements)
                                                 THEN settlements[sid].status ELSE "none",
                                        !.result = IF hit THEN "ok" ELSE "NoRowUpdated"])
      /\ settlements' = IF hit THEN [settlements EXCEPT ![sid].status = "PROCESSING"]
                        ELSE settlements
      /\ UNCHANGED <<stock, cart, orders, wallets, txs, cashbacks, responses>>

\* requestPayout as two steps, for callers that race: the request is sent
\* (row0 is the status of the row at that moment), then the store runs the update
StartRequestPayout(p, sid, v) ==
  /\ Begin(p, "rp_update", [NoLoc EXCEPT !.op = "requestPayout", !.data = sid, !.user = v,
                                         !.row0 = IF sid <= Len(settlements)
                                                  THEN settlements[sid].status ELSE "none"])
  /\ UNCHANGED <<stock, cart, orders, wallets, txs, cashbacks, settlements, responses>>

\* the conditional update runs as one statement; .single() makes an update of
\* no row an error
RpUpdate(p) ==
  /\ pc[p] = "rp_update"
  /\ LET sid == loc[p].data
         hit == sid <= Len(settlements) /\ PayoutMatches(settlements[sid], loc[p].user)
     IN  /\ Finish(p, loc[p], IF hit THEN "ok" ELSE "NoRowUpdated")
         /\ settlements' = IF hit THEN [settlements EXCEPT ![sid].status = "PROCESSING"]
                           ELSE settlements
  /\ UNCHANGED <<stock, cart, orders, wallets, txs, cashbacks, responses, ncalls>>

\* ------------------------------------------------------------------ orderService.cancelOrder

\* lines 268-270: the statuses cancelOrder refuses before touching stock
CancelRefused(status) == status = "SHIPPED" \/ status = "DELIVERED"

\* lines 275-278: the arguments of restore_product_stock for one line item
RestoreArgs_OneUnit(item) == [p_product_id |-> item.product_id, p_quantity |-> 1]

RestoreArgs(item) == [p_product_id |-> item.product_id, p_quantity |-> item.quantity]

\* restore_product_stock(p_product_id, p_quantity): the stock grows by the quantity
RestoreProductStock(args) ==
  stock' = [stock EXCEPT ![args.p_product_id] = @ + args.p_quantity]

StartCancelOrder(p, o) ==
  /\ o \in 1..Len(orders)
  /\ Begin(p, "co_read", [NoLoc EXCEPT !.op = "cancelOrder", !.order = o, !.stock0 = stock])
  /\ UNCHANGED <<stock, cart, orders, wallets, txs, cashbacks, settlements, responses>>

\* lines 259-270: read items and order_status, refuse shipped and delivered orders
CoRead(p) ==
  /\ pc[p] = "co_read"
  /\ LET order == orders[loc[p].order]
         l == [loc[p] EXCEPT !.read_status = order.order_status]
     IN  IF CancelRefused(order.order_status)
         THEN Finish(p, l, "CannotCancelShippedOrDelivered")
         ELSE Goto(p, "co_restore", [l EXCEPT !.items = order.items, !.idx = 1])
  /\ UNCHANGED <<stock, cart, orders, wallets, txs, cashbacks, settlements, responses, ncalls>>

\* lines 273-279: one turn of the loop, the stock of one line item is restored
CoRestore(p) ==
  /\ pc[p] = "co_restore"
  /\ RestoreProductStock(RestoreArgs(loc[p].items[loc[p].idx]))
  /\ Goto(p, IF loc[p].idx = Len(loc[p].items) THEN "co_update" ELSE "co_restore",
          [loc[p] EXCEPT !.idx = @ + 1])
  /\ UNCHANGED <<cart, orders, wallets, txs, cashbacks, settlements, responses, ncalls>>

\* line 282: updateOrderStatus(orderId, 'CANCELLED') succeeds
CoUpdateOk(p) ==
  /\ pc[p] = "co_update"
  /\ UpdateOrderStatusRpc(loc[p].order, "CANCELLED")
  /\ Finish(p, loc[p], "ok")
  /\ UNCHANGED <<stock, cart, wallets, txs, cashbacks, responses, ncalls>>

\* line 282: updateOrderStatus(orderId, 'CANCELLED') throws
CoUpdateRefused(p) ==
  /\ pc[p] = "co_update"
  /\ ~UpdateStatusAccepts(loc[p].order, "CANCELLED")
  /\ Finish(p, loc[p], "InvalidStatusTransition")
  /\ UNCHANGED <<stock, cart, orders, wallets, txs, cashbacks, settlements, responses, ncalls>>

\* ------------------------------------------------------------------ walletService

\* wallets UNIQUE(user_id): the insert of a wallet row for the user goes through
WalletUnique_NoConstraint(u) == TRUE

WalletUnique(u) == wallets[u].rows = 0

\* create_user_wallet(p_user_id): a zero-balance wallet is inserted unless the
\* user has one (wallets UNIQUE(user_id))
CreateUserWalletRpc(u) ==
  wallets' = IF WalletUnique(u)
             THEN [wallets EXCEPT ![u] = [exists |-> TRUE, balance |-> 0, rows |-> @.rows + 1]]
             ELSE wallets

\* the amounts a caller may ask addBalance to credit
CreditAmounts == (0 - 1)..MaxAmount

\* the amounts a caller may ask useWalletBalance to debit
DebitAmounts == 1..MaxAmount

\* getUserWallet called on its own
StartGetUserWallet(p, u) ==
  /\ Begin(p, "ab_get", [NoLoc EXCEPT !.op = "getUserWallet", !.user = u])
  /\ UNCHANGED <<stock, cart, orders, wallets, txs, cashbacks, settlements, responses>>

StartAddBalance(p, u, amount) ==
  /\ Begin(p, "ab_get", [NoLoc EXCEPT !.op = "addBalance", !.user = u, !.amount = amount])
  /\ UNCHANGED <<stock, cart, orders, wallets, txs, cashbacks, settlements, responses>>

\* getUserWallet lines 14-23 and 37: the select of the user's wallet; a wallet
\* found is returned (data = 1), to the caller or to addBalance
AbGet(p) ==
  /\ pc[p] = "ab_get"
  /\ IF wallets[loc[p].user].exists
     THEN IF loc[p].op = "getUserWallet"
          THEN Finish(p, [loc[p] EXCEPT !.data = 1], "ok")
          ELSE Goto(p, "ab_insert", [loc[p] EXCEPT !.balance = wallets[loc[p].user].balance])
     ELSE Goto(p, "ab_create", loc[p])
  /\ UNCHANGED <<stock, cart, orders, wallets, txs, cashbacks, settlements, responses, ncalls>>

\* getUserWallet lines 24-25: rpc create_user_wallet
AbCreate(p) ==
  /\ pc[p] = "ab_create"
  /\ CreateUserWalletRpc(loc[p].user)
  /\ Goto(p, "ab_refetch", [loc[p] EXCEPT !.effects = {"create_rpc"}])
  /\ UNCHANGED <<stock, cart, orders, txs, cashbacks, settlements, responses, ncalls>>

\* getUserWallet lines 28-34 and addBalance line 111: fetch the new wallet
AbRefetch(p) ==
  /\ pc[p] = "ab_refetch"
  /\ IF wallets[loc[p].user].exists
     THEN IF loc[p].op = "getUserWallet"
          THEN Finish(p, [loc[p] EXCEPT !.data = 1], "ok")
          ELSE Goto(p, "ab_insert", [loc[p] EXCEPT !.balance = wallets[loc[p].user].balance])
     ELSE IF loc[p].op = "getUserWallet"
          THEN Finish(p, loc[p], "null")
          ELSE Finish(p, loc[p], "WalletNotFound")
  /\ UNCHANGED <<stock, cart, orders, wallets, txs, cashbacks, settlements, responses, ncalls>>

\* addBalance lines 113-125: insert the CREDIT transaction
AbInsert(p) ==
  /\ pc[p] = "ab_insert"
  /\ txs' = Append(txs, [user_id |-> loc[p].user, transaction_type |-> "CREDIT",
                         amount |-> loc[p].amount, reference_type |-> "NONE",
                         reference_id |-> 0])
  /\ Goto(p, "ab_update", loc[p])
  /\ UNCHANGED <<stock, cart, orders, wallets, cashbacks, settlements, responses, ncalls>>

\* addBalance line 131: the balance written back
NewBalance_Overwrite(balance, amount) == amount

NewBalance(balance, amount) == balance + amount

\* addBalance lines 127-136: update the wallet balance, return the transaction
AbUpdate(p) ==
  /\ pc[p] = "ab_update"
  /\ wallets' = [wallets EXCEPT ![loc[p].user].balance = NewBalance(loc[p].balance, loc[p].amount)]
  /\ Finish(p, loc[p], "ok")
  /\ UNCHANGED <<stock, cart, orders, txs, cashbacks, settlements, responses, ncalls>>

\* addBalance lines 127-136: the update of the balance comes back with an error
\* (the store is unreachable); the result is not looked at and the transaction
\* is returned
AbUpdateFails(p) ==
  /\ pc[p] = "ab_update"
  /\ Finish(p, loc[p], "ok")
  /\ UNCHANGED <<stock, cart, orders, wallets, txs, cashbacks, settlements, responses, ncalls>>

\* use_wallet_balance(p_user_id, p_order_id, p_amount) accepts the call
UseWalletAccepts(u, amount) == wallets[u].exists /\ wallets[u].balance >= amount

\* use_wallet_balance: one transaction that inserts the DEBIT transaction and
\* lowers the balance
UseWalletBalanceRpc(u, o, amount) ==
  /\ UseWalletAccepts(u, amount)
  /\ wallets' = [wallets EXCEPT ![u].balance = @ - amount]
  /\ txs' = Append(txs, [user_id |-> u, transaction_type |-> "DEBIT", amount |-> amount,
                         reference_type |-> "ORDER", reference_id |-> o])

\* walletService.useWalletBalance: one rpc; true on success, throws on error
UseWalletBalance(p, u, o, amount) ==
  /\ Begin(p, "done", [NoLoc EXCEPT !.op = "useWalletBalance", !.user = u, !.order = o,
                                    !.amount = amount, !.data = Len(txs),
                                    !.result = IF UseWalletAccepts(u, amount)
                                               THEN "ok" ELSE "InsufficientBalance"])
  /\ IF UseWalletAccepts(u, amount)
     THEN UseWalletBalanceRpc(u, o, amount)
     ELSE UNCHANGED <<wallets, txs>>
  /\ UNCHANGED <<stock, cart, orders, cashbacks, settlements, responses>>

\* ------------------------------------------------------------------ orderService.payWithWallet

StartPayWithWallet(p, u, o, amount) ==
  /\ o \in 1..Len(orders)
  /\ Begin(p, "pw_debit", [NoLoc EXCEPT !.op = "payWithWallet", !.user = u, !.order = o,
                                         !.amount = amount])
  /\ UNCHANGED <<stock, cart, orders, wallets, txs, cashbacks, settlements, responses>>

\* lines 192, 200-202: useWalletBalance; its error is rethrown as 'Wallet payment failed'
PwDebit(p) ==
  /\ pc[p] = "pw_debit"
  /\ IF UseWalletAccepts(loc[p].user, loc[p].amount)
     THEN /\ UseWalletBalanceRpc(loc[p].user, loc[p].order, loc[p].amount)
          /\ Goto(p, "pw_update", [loc[p] EXCEPT !.effects = {"debit"}])
     ELSE /\ Finish(p, loc[p], "WalletPaymentFailed")
          /\ UNCHANGED <<wallets, txs>>
  /\ UNCHANGED <<stock, cart, orders, cashbacks, settlements, responses, ncalls>>

\* lines 194-202: updateOrderStatus(orderId, 'PAID'); its error is rethrown as
\* 'Wallet payment failed'
PwUpdate(p) ==
  /\ pc[p] = "pw_update"
  /\ LET l == [loc[p] EXCEPT !.read_status = orders[loc[p].order].order_status]
     IN  IF UpdateStatusAccepts(loc[p].order, "PAID")
         THEN /\ UpdateOrderStatusRpc(loc[p].order, "PAID")
              /\ Finish(p, l, "ok")
         ELSE /\ Finish(p, l, "WalletPaymentFailed")
              /\ UNCHANGED <<orders, settlements>>
  /\ UNCHANGED <<stock, cart, wallets, txs, cashbacks, responses, ncalls>>

\* ------------------------------------------------------------------ cashbackService

\* calculateCashback: 5% of the order total
calculateCashback_PerMille(orderAmount) == (orderAmount * 5) \div 1000

calculateCashback(orderAmount) == (orderAmount * 5) \div 100

\* the ids of the cashback rows of an order
CashbackOf(o) == {i \in 1..Len(cashbacks) : cashbacks[i].order_id = o}

\* the status of the cashback row of an order, "none" without a row
RowStatus(o) ==
  IF CashbackOf(o) = {} THEN "none" ELSE cashbacks[CHOOSE i \in CashbackOf(o) : TRUE].status

\* process_cashback_to_wallet(p_cashback_id) accepts the call
ProcessCashbackAccepts(cb) == cashbacks[cb].status = "ELIGIBLE"

\* process_cashback_to_wallet: one transaction that credits the wallet of the
\* cashback's user, marks the cashback PROCESSED and flips cashback_given
ProcessCashbackRpc(cb) ==
  LET c == cashbacks[cb]
  IN  /\ ProcessCashbackAccepts(cb)
      /\ wallets' = [wallets EXCEPT ![c.user_id] =
                       [exists |-> TRUE, balance |-> @.balance + c.amount,
                        rows |-> IF @.rows = 0 THEN 1 ELSE @.rows]]
      /\ txs' = Append(txs, [user_id |-> c.user_id, transaction_type |-> "CREDIT",
                             amount |-> c.amount, reference_type |-> "CASHBACK",
                             reference_id |-> cb])
      /\ cashbacks' = [cashbacks EXCEPT ![cb].status = "PROCESSED"]
      /\ orders' = [orders EXCEPT ![c.order_id].cashback_given = TRUE]

\* lines 59-62: the call returns null without looking further
CashbackSkipped_Inverted(order) == order.order_status = "DELIVERED" \/ order.cashback_given

CashbackSkipped(order) == order.order_status # "DELIVERED" \/ order.cashback_given

StartProcessCashbackForOrder(p, o) ==
  /\ o \in 1..Len(orders)
  /\ Begin(p, "pco_read", [NoLoc EXCEPT !.op = "processCashbackForOrder", !.order = o,
                                         !.given0 = orders[o].cashback_given,
                                         !.row0 = RowStatus(o)])
  /\ UNCHANGED <<stock, cart, orders, wallets, txs, cashbacks, settlements, responses>>

\* lines 50-62: read the order, return null unless delivered without cashback
PcoRead(p) ==
  /\ pc[p] = "pco_read"
  /\ LET order == orders[loc[p].order]
         l == [loc[p] EXCEPT !.read_status = order.order_status]
     IN  IF CashbackSkipped(order)
         THEN Finish(p, l, "null")
         ELSE Goto(p, "pco_existing", [l EXCEPT !.total = order.total_amount,
                                                !.user = order.user_id])
  /\ UNCHANGED <<stock, cart, orders, wallets, txs, cashbacks, settlements, responses, ncalls>>

\* lines 64-71: select the cashback row of the order
PcoExisting(p) ==
  /\ pc[p] = "pco_existing"
  /\ IF CashbackOf(loc[p].order) # {}
     THEN Goto(p, "pco_process_existing",
               [loc[p] EXCEPT !.cb = CHOOSE i \in CashbackOf(loc[p].order) : TRUE])
     ELSE Goto(p, "pco_insert", loc[p])
  /\ UNCHANGED <<stock, cart, orders, wallets, txs, cashbacks, settlements, responses, ncalls>>

\* what a call of process_cashback_to_wallet on row cb adds to the effects of the
\* calling operation: the rpc was sent, and the wallet was credited if it accepted
RpcEffects(cb) == IF ProcessCashbackAccepts(cb) THEN {"rpc", "credit"} ELSE {"rpc"}

\* lines 72-76: process the existing row, whatever the rpc answers, and return it
PcoProcessExisting(p) ==
  /\ pc[p] = "pco_process_existing"
  /\ IF ProcessCashbackAccepts(loc[p].cb)
     THEN ProcessCashbackRpc(loc[p].cb)
     ELSE UNCHANGED <<wallets, txs, cashbacks, orders>>
  /\ Finish(p, [loc[p] EXCEPT !.effects = @ \cup RpcEffects(loc[p].cb)], "ok")
  /\ UNCHANGED <<stock, cart, settlements, responses, ncalls>>

\* cashback UNIQUE(order_id): the order has no row yet
CashbackUnique_NoConstraint(o) == TRUE

CashbackUnique(o) == CashbackOf(o) = {}

\* line 91: 30 * 24 * 60 * 60 * 1000 ms, counted in days
ExpiryDays == 30

\* the days Date.now() may read at the insert
Days == 0..MaxDay

\* lines 79-95: insert the ELIGIBLE cashback row (cashback UNIQUE(order_id));
\* created_at is the column default NOW()
PcoInsert(p) ==
  /\ pc[p] = "pco_insert"
  /\ IF ~CashbackUnique(loc[p].order)
     THEN /\ Finish(p, loc[p], "UniqueViolation")
          /\ UNCHANGED cashbacks
     ELSE /\ \E now \in Days :
               cashbacks' = Append(cashbacks,
                                   [order_id |-> loc[p].order, user_id |-> loc[p].user,
                                    amount |-> calculateCashback(loc[p].total),
                                    percentage |-> 5,
                                    status |-> "ELIGIBLE",
                                    created_at |-> now,
                                    expires_at |-> now + ExpiryDays])
          /\ Goto(p, "pco_process", [loc[p] EXCEPT !.cb = Len(cashbacks) + 1,
                                                  !.effects = @ \cup {"insert"}])
  /\ UNCHANGED <<stock, cart, orders, wallets, txs, settlements, responses, ncalls>>

\* lines 97-102: process the new row, whatever the rpc answers, and return it
PcoProcess(p) ==
  /\ pc[p] = "pco_process"
  /\ IF ProcessCashbackAccepts(loc[p].cb)
     THEN ProcessCashbackRpc(loc[p].cb)
     ELSE UNCHANGED <<wallets, txs, cashbacks, orders>>
  /\ Finish(p, [loc[p] EXCEPT !.effects = @ \cup RpcEffects(loc[p].cb)], "ok")
  /\ UNCHANGED <<stock, cart, settlements, responses, ncalls>>

\* lines 97-100: the rpc on the new row comes back with an error (the store is
\* unreachable, the transaction aborts); the error is not looked at and the row is returned
PcoProcessFails(p) ==
  /\ pc[p] = "pco_process"
  /\ Finish(p, [loc[p] EXCEPT !.effects = @ \cup {"rpc"}], "ok")
  /\ UNCHANGED <<stock, cart, orders, wallets, txs, cashbacks, settlements, responses, ncalls>>

\* lines 137-138: the rows the update of markCashbackAsExpired applies to
Expirable_AnyStatus(row) == TRUE

Expirable(row) == row.status = "ELIGIBLE"

\* the days on which a caller may act: the days of the inserts, and the days
\* after the expiry of a row inserted on them
Clock == Days \cup {d + ExpiryDays + 1 : d \in Days}

\* markCashbackAsExpired: one conditional update; no matching row is no error;
\* now, the day of the call (kept in data), is not read by the code
MarkCashbackAsExpired(p, cb, now) ==
  /\ cb \in 1..Len(cashbacks)
  /\ now >= cashbacks[cb].created_at
  /\ Begin(p, "done", [NoLoc EXCEPT !.op = "markCashbackAsExpired", !.cb = cb,
                                    !.data = now,
                                    !.row0 = cashbacks[cb].status, !.result = "ok"])
  /\ cashbacks' = IF Expirable(cashbacks[cb])
                  THEN [cashbacks EXCEPT ![cb].status = "EXPIRED"]
                  ELSE cashbacks
  /\ UNCHANGED <<stock, cart, orders, wallets, txs, settlements, responses>>

\* walletService.processCashbackToWallet: one rpc; true on success, throws on error
ProcessCashbackToWallet(p, cb) ==
  /\ cb \in 1..Len(cashbacks)
  /\ Begin(p, "done", [NoLoc EXCEPT !.op = "processCashbackToWallet", !.cb = cb,
                                    !.row0 = cashbacks[cb].status,
                                    !.effects = RpcEffects(cb),
                                    !.result = IF ProcessCashbackAccepts(cb)
                                               THEN "ok" ELSE "CashbackNotEligible"])
  /\ IF ProcessCashbackAccepts(cb)
     THEN ProcessCashbackRpc(cb)
     ELSE UNCHANGED <<wallets, txs, cashbacks, orders>>
  /\ UNCHANGED <<stock, cart, settlements, responses>>

\* ------------------------------------------------------------------ orderService.confirmDelivery

StartConfirmDelivery(p, o) ==
  /\ o \in 1..Len(orders)
  /\ Begin(p, "cd_update", [NoLoc EXCEPT !.op = "confirmDelivery", !.order = o,
                                          !.status = "DELIVERED"])
  /\ UNCHANGED <<stock, cart, orders, wallets, txs, cashbacks, settlements, responses>>

\* line 150: updateOrderStatus(orderId, 'DELIVERED'); it throws when the rpc refuses,
\* on success the call goes on into processCashbackForOrder (line 154) and returns
\* true when that returns (result "null" or "ok")
CdUpdate(p) ==
  /\ pc[p] = "cd_update"
  /\ LET l == [loc[p] EXCEPT !.read_status = orders[loc[p].order].order_status]
     IN  IF UpdateStatusAccepts(loc[p].order, "DELIVERED")
         THEN /\ UpdateOrderStatusRpc(loc[p].order, "DELIVERED")
              /\ Goto(p, "pco_read", l)
         ELSE /\ Finish(p, l, "InvalidStatusTransition")
              /\ UNCHANGED <<orders, settlements>>
  /\ UNCHANGED <<stock, cart, wallets, txs, cashbacks, responses, ncalls>>

\* ------------------------------------------------------------------ POST /api/orders/create

\* request bodies: one or two lines of id, quantity and client price
BodyLines == [id : Products, quantity : 0..MaxQty, price : 1..2]

Bodies == {<<a>> : a \in BodyLines} \cup {<<a, b>> : a \in BodyLines, b \in {x \in BodyLines : x.id = "Y"}}

\* orderSchema: quantity and price are positive numbers
OrderSchemaOk(items) ==
  \A i \in 1..Len(items) : items[i].quantity > 0 /\ items[i].price > 0

\* lines 31-44: the total calculated over the validated items
calculatedTotal(items) ==
  SumSeq([i \in 1..Len(items) |-> items[i].price * items[i].quantity])

\* the coupons table: an active PERCENTAGE coupon with a cap and an active
\* FIXED coupon, both without minimum order value, usage limit or end of validity
coupons ==
  [HALF |-> [discount_type |-> "PERCENTAGE", discount_value |-> 50, maximum_discount |-> 2],
   FLAT |-> [discount_type |-> "FIXED", discount_value |-> 3, maximum_discount |-> 0]]

\* couponCode is optional in orderSchema: "none" is a body without it
CouponCodes == DOMAIN coupons \cup {"none"}

\* POST: validate the body, calculate the total, answer; lines 46-49 leave
\* the total as it is when the body has a couponCode
Post(items, couponCode) ==
  /\ Cardinality(responses) < MaxRequests
  /\ responses' = responses \cup
       {IF OrderSchemaOk(items)
        THEN [items |-> items, couponCode |-> couponCode, status |-> 200,
              total |-> calculatedTotal(items)]
        ELSE [items |-> items, couponCode |-> couponCode, status |-> 400, total |-> 0]}
  /\ UNCHANGED <<stock, cart, orders, wallets, txs, cashbacks, settlements, pc, loc, ncalls>>

\* ------------------------------------------------------------------ middleware

\* request paths, as sequences of characters
Paths ==
  {<<"/">>, <<"/", "c", "a", "r", "t">>,
   <<"/", "a", "d", "m", "i", "n">>, <<"/", "a", "d", "m", "i", "n", "/", "c">>,
   <<"/", "s", "t", "o", "r", "e">>, <<"/", "s", "t", "o", "r", "e", "/", "o">>}

\* the session a request carries
Sessions == {"none", "expired", "valid"}

\* String.prototype.startsWith
startsWith(path, prefix) ==
  Len(path) >= Len(prefix) /\ SubSeq(path, 1, Len(prefix)) = prefix

\* line 47: path.startsWith('/admin') || path.startsWith('/store')
isProtected(path) ==
  \/ startsWith(path, <<"/", "a", "d", "m", "i", "n">>)
  \/ startsWith(path, <<"/", "s", "t", "o", "r", "e">>)

\* middleware: sets the headers and returns NextResponse.next(); the branch of
\* a protected path (lines 49-54) holds comments only
middleware(path, session) ==
  /\ Cardinality(responses) < MaxRequests
  /\ responses' = responses \cup
       {[path |-> path, session |-> session, protected |-> isProtected(path),
         action |-> "next"]}
  /\ UNCHANGED <<stock, cart, orders, wallets, txs, cashbacks, settlements, pc, loc, ncalls>>

\* ------------------------------------------------------------------ checkout specification

\* concurrent checkouts: carts fill while callers run createOrderFromCart, and the
\* delete of clearCart may fail
NextCheckout ==
  \/ \E u \in Users, prod \in Products, q \in 1..MaxQty :
        AddToCart(u, prod, q) /\ UNCHANGED ncalls
  \/ \E p \in Procs, u \in Users : StartCreateOrderFromCart(p, u) /\ UNCHANGED ncalls
  \/ \E p \in Procs : CocRead(p)
  \/ \E p \in Procs : CocRpcOk(p)
  \/ \E p \in Procs : CocRpcRefused(p)
  \/ \E p \in Procs : CocClearOk(p)
  \/ \E p \in Procs : CocClearFails(p)

SpecCheckout == Init /\ [][NextCheckout]_vars

\* ------------------------------------------------------------------ lifecycle specifications

\* one caller at a time: checkout, then status updates by admin and vendors
NextStatusSeq ==
  \/ \E prod \in Products, q \in 1..MaxQty : AddToCart("alice", prod, q) /\ UNCHANGED ncalls
  \/ Len(orders) < MaxSeqOrders /\ StartCreateOrderFromCart(1, "alice") /\ UNCHANGED ncalls
  \/ CocRead(1)
  \/ CocRpcOk(1)
  \/ CocClearOk(1)
  \/ \E o \in 1..MaxSeqOrders, s \in RequestableStatuses :
        UpdateOrderStatus(1, o, s) /\ UNCHANGED ncalls
  \/ \E o \in 1..MaxSeqOrders, s \in VendorStatuses, v \in Vendors :
        VendorUpdateOrderStatus(1, o, s, v) /\ UNCHANGED ncalls

SpecStatusSeq == Init /\ [][NextStatusSeq]_vars

\* one caller at a time: checkout, status updates, cancellation and cashback
\* processing in sequence
NextCancelSeq ==
  \/ \E prod \in Products, q \in 1..MaxQty : AddToCart("alice", prod, q) /\ UNCHANGED ncalls
  \/ Len(orders) < MaxSeqOrders /\ StartCreateOrderFromCart(1, "alice") /\ UNCHANGED ncalls
  \/ CocRead(1)
  \/ CocRpcOk(1)
  \/ CocClearOk(1)
  \/ \E o \in 1..MaxSeqOrders, s \in RequestableStatuses :
        UpdateOrderStatus(1, o, s) /\ UNCHANGED ncalls
  \/ \E o \in 1..MaxSeqOrders : StartCancelOrder(1, o) /\ Counted(MaxCalls)
  \/ CoRead(1)
  \/ CoRestore(1)
  \/ CoUpdateOk(1)
  \/ CoUpdateRefused(1)
  \/ \E o \in 1..MaxSeqOrders : StartProcessCashbackForOrder(1, o) /\ UNCHANGED ncalls
  \/ PcoRead(1)
  \/ PcoExisting(1)
  \/ PcoInsert(1)
  \/ PcoProcess(1)

SpecCancelSeq == Init /\ [][NextCancelSeq]_vars

\* two callers racing on the orders of one user
NextLifecycleRace ==
  \/ \E q \in 1..MaxQty : AddToCart("alice", "X", q) /\ UNCHANGED ncalls
  \/ \E p \in Procs : Len(orders) < MaxSeqOrders /\ StartCreateOrderFromCart(p, "alice") /\ Counted(MaxRaceCalls)
  \/ \E p \in Procs : CocRead(p)
  \/ \E p \in Procs : CocRpcOk(p)
  \/ \E p \in Procs : CocRpcRefused(p)
  \/ \E p \in Procs : CocClearOk(p)
  \/ \E p \in Procs, o \in 1..MaxSeqOrders, s \in RequestableStatuses :
        UpdateOrderStatus(p, o, s) /\ Counted(MaxRaceCalls)
  \/ \E p \in Procs, o \in 1..MaxSeqOrders : StartCancelOrder(p, o) /\ Counted(MaxRaceCalls)
  \/ \E p \in Procs : CoRead(p)
  \/ \E p \in Procs : CoRestore(p)
  \/ \E p \in Procs : CoUpdateOk(p)
  \/ \E p \in Procs : CoUpdateRefused(p)

SpecLifecycleRace == Init /\ [][NextLifecycleRace]_vars

\* one caller at a time: checkout, status updates by admin and vendors, delivery
\* confirmation; the rpc that credits the cashback may fail
NextDelivery ==
  \/ \E prod \in Products, q \in 1..MaxQty : AddToCart("alice", prod, q) /\ UNCHANGED ncalls
  \/ Len(orders) < MaxSeqOrders /\ StartCreateOrderFromCart(1, "alice") /\ UNCHANGED ncalls
  \/ CocRead(1)
  \/ CocRpcOk(1)
  \/ CocClearOk(1)
  \/ \E o \in 1..MaxSeqOrders, s \in RequestableStatuses :
        UpdateOrderStatus(1, o, s) /\ UNCHANGED ncalls
  \/ \E o \in 1..MaxSeqOrders, s \in VendorStatuses, v \in Vendors :
        VendorUpdateOrderStatus(1, o, s, v) /\ UNCHANGED ncalls
  \/ \E o \in 1..MaxSeqOrders : StartConfirmDelivery(1, o) /\ UNCHANGED ncalls
  \/ CdUpdate(1)
  \/ PcoRead(1)
  \/ PcoExisting(1)
  \/ PcoInsert(1)
  \/ PcoProcess(1)
  \/ PcoProcessFails(1)

\* a call that has started runs to its end: every awaited store call returns
DeliveryFairness ==
  /\ WF_vars(CocRead(1)) /\ WF_vars(CocRpcOk(1)) /\ WF_vars(CocClearOk(1))
  /\ WF_vars(CdUpdate(1)) /\ WF_vars(PcoRead(1)) /\ WF_vars(PcoExisting(1))
  /\ WF_vars(PcoInsert(1)) /\ WF_vars(PcoProcess(1) \/ PcoProcessFails(1))

SpecDelivery == Init /\ [][NextDelivery]_vars /\ DeliveryFairness

\* one caller at a time: delivery, cashback processing whose rpc may fail, expiry
\* of cashback rows and direct processing of a row
NextCashbackFaults ==
  \/ \E q \in 1..MaxQty : AddToCart("alice", "X", q) /\ UNCHANGED ncalls
  \/ Len(orders) < MaxSeqOrders /\ StartCreateOrderFromCart(1, "alice") /\ UNCHANGED ncalls
  \/ CocRead(1)
  \/ CocRpcOk(1)
  \/ CocClearOk(1)
  \/ \E o \in 1..MaxSeqOrders, s \in RequestableStatuses :
        UpdateOrderStatus(1, o, s) /\ UNCHANGED ncalls
  \/ \E o \in 1..MaxSeqOrders : StartProcessCashbackForOrder(1, o) /\ UNCHANGED ncalls
  \/ PcoRead(1)
  \/ PcoExisting(1)
  \/ PcoProcessExisting(1)
  \/ PcoInsert(1)
  \/ PcoProcess(1)
  \/ PcoProcessFails(1)
  \/ \E cb \in 1..MaxSeqOrders, now \in Clock :
        MarkCashbackAsExpired(1, cb, now) /\ UNCHANGED ncalls
  \/ \E cb \in 1..MaxSeqOrders : ProcessCashbackToWallet(1, cb) /\ UNCHANGED ncalls

SpecCashbackFaults == Init /\ [][NextCashbackFaults]_vars

\* two callers racing on the cashback of one order: status updates, cashback
\* processing, expiry and direct processing of a row
NextCashbackRace ==
  \/ \E q \in 1..MaxQty : AddToCart("alice", "X", q) /\ UNCHANGED ncalls
  \/ Len(orders) < MaxSeqOrders /\ StartCreateOrderFromCart(1, "alice") /\ UNCHANGED ncalls
  \/ CocRead(1)
  \/ CocRpcOk(1)
  \/ CocClearOk(1)
  \/ \E p \in Procs, o \in 1..MaxSeqOrders, s \in RequestableStatuses :
        UpdateOrderStatus(p, o, s) /\ UNCHANGED ncalls
  \/ \E p \in Procs, o \in 1..MaxSeqOrders :
        StartProcessCashbackForOrder(p, o) /\ Counted(MaxRaceCalls)
  \/ \E p \in Procs : PcoRead(p)
  \/ \E p \in Procs : PcoExisting(p)
  \/ \E p \in Procs : PcoProcessExisting(p)
  \/ \E p \in Procs : PcoInsert(p)
  \/ \E p \in Procs : PcoProcess(p)
  \/ \E p \in Procs, cb \in 1..MaxSeqOrders, now \in Clock :
        MarkCashbackAsExpired(p, cb, now) /\ Counted(MaxRaceCalls)
  \/ \E p \in Procs, cb \in 1..MaxSeqOrders :
        ProcessCashbackToWallet(p, cb) /\ Counted(MaxRaceCalls)

SpecCashbackRace == Init /\ [][NextCashbackRace]_vars

\* one caller at a time on the wallets: credits and debits in sequence
NextWalletSeq ==
  \/ \E u \in Users, a \in CreditAmounts : StartAddBalance(1, u, a) /\ Counted(MaxCalls)
  \/ AbGet(1)
  \/ AbCreate(1)
  \/ AbRefetch(1)
  \/ AbInsert(1)
  \/ AbUpdate(1)
  \/ \E u \in Users, a \in DebitAmounts : UseWalletBalance(1, u, 1, a) /\ Counted(MaxCalls)

SpecWalletSeq == Init /\ [][NextWalletSeq]_vars

\* one caller at a time on the wallets, and the update of the balance may fail
NextWalletFaults ==
  \/ \E u \in Users, a \in CreditAmounts : StartAddBalance(1, u, a) /\ Counted(MaxCalls)
  \/ AbGet(1)
  \/ AbCreate(1)
  \/ AbRefetch(1)
  \/ AbInsert(1)
  \/ AbUpdate(1)
  \/ AbUpdateFails(1)

SpecWalletFaults == Init /\ [][NextWalletFaults]_vars

\* one caller at a time: an order is placed, wallets are credited and debited,
\* orders are paid from the wallet
NextWalletPay ==
  \/ \E q \in 1..MaxQty : AddToCart("alice", "X", q) /\ UNCHANGED ncalls
  \/ Len(orders) < MaxSeqOrders /\ StartCreateOrderFromCart(1, "alice") /\ UNCHANGED ncalls
  \/ CocRead(1)
  \/ CocRpcOk(1)
  \/ CocClearOk(1)
  \/ \E a \in CreditAmounts : StartAddBalance(1, "alice", a) /\ Counted(MaxCalls)
  \/ AbGet(1)
  \/ AbCreate(1)
  \/ AbRefetch(1)
  \/ AbInsert(1)
  \/ AbUpdate(1)
  \/ \E a \in DebitAmounts : UseWalletBalance(1, "alice", 1, a) /\ Counted(MaxCalls)
  \/ \E o \in 1..MaxSeqOrders, a \in DebitAmounts :
        StartPayWithWallet(1, "alice", o, a) /\ Counted(MaxCalls)
  \/ PwDebit(1)
  \/ PwUpdate(1)
  \/ \E o \in 1..MaxSeqOrders, s \in RequestableStatuses :
        UpdateOrderStatus(1, o, s) /\ UNCHANGED ncalls

SpecWalletPay == Init /\ [][NextWalletPay]_vars

\* one caller at a time: orders are placed and delivered, vendors request payouts
NextPayout ==
  \/ \E prod \in Products, q \in 1..MaxQty : AddToCart("alice", prod, q) /\ UNCHANGED ncalls
  \/ Len(orders) < MaxSeqOrders /\ StartCreateOrderFromCart(1, "alice") /\ UNCHANGED ncalls
  \/ CocRead(1)
  \/ CocRpcOk(1)
  \/ CocClearOk(1)
  \/ \E o \in 1..MaxSeqOrders, s \in RequestableStatuses :
        UpdateOrderStatus(1, o, s) /\ UNCHANGED ncalls
  \/ \E sid \in SettlementIds, v \in Vendors : RequestPayout(1, sid, v) /\ UNCHANGED ncalls

SpecPayout == Init /\ [][NextPayout]_vars

\* a cart is filled, its order is placed and delivered, then two callers race
\* for payouts
NextPayoutRace ==
  \/ \E prod \in Products, q \in 1..MaxQty :
        orders = <<>> /\ AddToCart("alice", prod, q) /\ UNCHANGED ncalls
  \/ Len(orders) < MaxSeqOrders /\ StartCreateOrderFromCart(1, "alice") /\ UNCHANGED ncalls
  \/ CocRead(1)
  \/ CocRpcOk(1)
  \/ CocClearOk(1)
  \/ \E o \in 1..MaxSeqOrders, s \in RequestableStatuses :
        UpdateOrderStatus(1, o, s) /\ UNCHANGED ncalls
  \/ \E p \in Procs, sid \in SettlementIds, v \in Vendors :
        StartRequestPayout(p, sid, v) /\ Counted(MaxCalls)
  \/ \E p \in Procs : RpUpdate(p)

SpecPayoutRace == Init /\ [][NextPayoutRace]_vars

\* two callers adding to the carts
NextCartRace ==
  \/ \E p \in Procs, u \in Users, prod \in Products, q \in 1..MaxQty :
        StartAddToCart(p, u, prod, q) /\ Counted(MaxCalls)
  \/ \E p \in Procs : AtcRead(p)
  \/ \E p \in Procs : AtcUpdate(p)
  \/ \E p \in Procs : AtcInsert(p)

SpecCartRace == Init /\ [][NextCartRace]_vars

\* one caller at a time through the whole life of an order of X: it is placed,
\* paid from the wallet, moved, delivered, cancelled, its cashback processed
\* by an rpc that may fail
NextLifecycleSeq ==
  \/ \E q \in 1..MaxQty : orders = <<>> /\ AddToCart("alice", "X", q) /\ UNCHANGED ncalls
  \/ Len(orders) < MaxSeqOrders /\ StartCreateOrderFromCart(1, "alice") /\ UNCHANGED ncalls
  \/ CocRead(1)
  \/ CocRpcOk(1)
  \/ CocClearOk(1)
  \/ \E a \in DebitAmounts : StartAddBalance(1, "alice", a) /\ Counted(MaxCalls)
  \/ AbGet(1)
  \/ AbCreate(1)
  \/ AbRefetch(1)
  \/ AbInsert(1)
  \/ AbUpdate(1)
  \/ \E o \in 1..MaxSeqOrders, s \in RequestableStatuses :
        UpdateOrderStatus(1, o, s) /\ UNCHANGED ncalls
  \/ \E o \in 1..MaxSeqOrders : StartConfirmDelivery(1, o) /\ UNCHANGED ncalls
  \/ CdUpdate(1)
  \/ \E o \in 1..MaxSeqOrders : StartCancelOrder(1, o) /\ Counted(MaxCalls)
  \/ CoRead(1)
  \/ CoRestore(1)
  \/ CoUpdateOk(1)
  \/ CoUpdateRefused(1)
  \/ \E o \in 1..MaxSeqOrders, a \in DebitAmounts :
        StartPayWithWallet(1, "alice", o, a) /\ Counted(MaxCalls)
  \/ PwDebit(1)
  \/ PwUpdate(1)
  \/ \E o \in 1..MaxSeqOrders : StartProcessCashbackForOrder(1, o) /\ UNCHANGED ncalls
  \/ PcoRead(1)
  \/ PcoExisting(1)
  \/ PcoProcessExisting(1)
  \/ PcoInsert(1)
  \/ PcoProcess(1)
  \/ PcoProcessFails(1)

SpecLifecycleSeq == Init /\ [][NextLifecycleSeq]_vars

\* two callers reading wallets, the first accesses creating them
NextWalletCreate ==
  \/ \E p \in Procs, u \in Users : StartGetUserWallet(p, u) /\ Counted(MaxRaceCalls)
  \/ \E p \in Procs : AbGet(p)
  \/ \E p \in Procs : AbCreate(p)
  \/ \E p \in Procs : AbRefetch(p)

SpecWalletCreate == Init /\ [][NextWalletCreate]_vars

\* two callers crediting wallets at the same time
NextWalletRace ==
  \/ \E p \in Procs, u \in Users, a \in CreditAmounts :
        StartAddBalance(p, u, a) /\ Counted(MaxRaceCalls)
  \/ \E p \in Procs : AbGet(p)
  \/ \E p \in Procs : AbCreate(p)
  \/ \E p \in Procs : AbRefetch(p)
  \/ \E p \in Procs : AbInsert(p)
  \/ \E p \in Procs : AbUpdate(p)

SpecWalletRace == Init /\ [][NextWalletRace]_vars

\* one caller at a time: checkout, status updates and cashback processing
NextCashbackSeq ==
  \/ \E prod \in Products, q \in 1..MaxQty : AddToCart("alice", prod, q) /\ UNCHANGED ncalls
  \/ Len(orders) < MaxSeqOrders /\ StartCreateOrderFromCart(1, "alice") /\ UNCHANGED ncalls
  \/ CocRead(1)
  \/ CocRpcOk(1)
  \/ CocClearOk(1)
  \/ \E o \in 1..MaxSeqOrders, s \in RequestableStatuses :
        UpdateOrderStatus(1, o, s) /\ UNCHANGED ncalls
  \/ \E o \in 1..MaxSeqOrders : StartProcessCashbackForOrder(1, o) /\ UNCHANGED ncalls
  \/ PcoRead(1)
  \/ PcoExisting(1)
  \/ PcoInsert(1)
  \/ PcoProcess(1)

SpecCashbackSeq == Init /\ [][NextCashbackSeq]_vars

\* one caller at a time: orders placed from the cart and through storeService
NextOrdersSeq ==
  \/ \E prod \in Products, q \in 1..MaxQty : AddToCart("alice", prod, q) /\ UNCHANGED ncalls
  \/ StartCreateOrderFromCart(1, "alice") /\ UNCHANGED ncalls
  \/ CocRead(1)
  \/ CocRpcOk(1)
  \/ CocClearOk(1)
  \/ \E items \in CallerItems, total \in CallerTotals :
        StoreCreateOrder(1, "alice", items, total) /\ UNCHANGED ncalls

SpecOrdersSeq == Init /\ [][NextOrdersSeq]_vars

\* requests to the order-creation route
NextRoute == \E items \in Bodies, couponCode \in CouponCodes : Post(items, couponCode)

SpecRoute == Init /\ [][NextRoute]_vars

\* page requests through the middleware
NextMiddleware == \E path \in Paths, session \in Sessions : middleware(path, session)

SpecMiddleware == Init /\ [][NextMiddleware]_vars

\* every operation of the engine, by any caller
Next ==
  \/ NextMiddleware
  \/ NextLifecycleSeq
  \/ NextCartRace
  \/ NextPayoutRace
  \/ NextWalletFaults
  \/ NextCheckout
  \/ NextStatusSeq
  \/ NextCancelSeq
  \/ NextLifecycleRace
  \/ NextWalletSeq
  \/ NextCashbackSeq
  \/ NextOrdersSeq
  \/ NextRoute
  \/ NextDelivery
  \/ NextCashbackFaults
  \/ NextCashbackRace
  \/ NextWalletPay
  \/ NextWalletCreate
  \/ NextWalletRace
  \/ NextPayout

Spec == Init /\ [][Next]_vars

\* ------------------------------------------------------------------ properties

\* credits minus debits over the transactions of a user's wallet
Ledger(u) ==
  SumSeq([i \in 1..Len(txs) |->
            IF txs[i].user_id # u THEN 0
            ELSE IF txs[i].transaction_type = "CREDIT" THEN txs[i].amount
            ELSE 0 - txs[i].amount])

\* C1: after any sequence of addBalance and useWalletBalance calls, every
\* wallet's balance equals its CREDIT amounts minus its DEBIT amounts.
C1_BalanceIsLedger ==
  (\A p \in Procs : Free(p)) => \A u \in Users : wallets[u].balance = Ledger(u)

\* a wallet has been credited and debited, and a call has just returned
C1_Witness ==
  /\ pc[1] = "done"
  /\ \E u \in Users :
       /\ \E i \in 1..Len(txs) : txs[i].user_id = u /\ txs[i].transaction_type = "CREDIT"
       /\ \E i \in 1..Len(txs) : txs[i].user_id = u /\ txs[i].transaction_type = "DEBIT"
       /\ wallets[u].balance > 0

\* wallet credits made for the cashback of order o
CashbackCredits(o) ==
  {i \in 1..Len(txs) :
     /\ txs[i].transaction_type = "CREDIT" /\ txs[i].reference_type = "CASHBACK"
     /\ txs[i].reference_id \in CashbackOf(o)}

\* C2: processCashbackForOrder called again on the same DELIVERED order leaves
\* exactly one Cashback row and exactly one wallet credit for the order.
C2_CashbackOnce ==
  /\ \A o \in 1..Len(orders) :
       Cardinality(CashbackOf(o)) <= 1 /\ Cardinality(CashbackCredits(o)) <= 1
  /\ \A p \in Procs :
       (pc[p] = "done" /\ loc[p].op = "processCashbackForOrder"
          /\ loc[p].read_status = "DELIVERED")
         => /\ Cardinality(CashbackOf(loc[p].order)) = 1
            /\ Cardinality(CashbackCredits(loc[p].order)) = 1

\* a second call on a DELIVERED order has returned, the first having credited
C2_Witness ==
  \E p \in Procs :
    /\ pc[p] = "done" /\ loc[p].op = "processCashbackForOrder"
    /\ loc[p].read_status = "DELIVERED" /\ loc[p].result = "null"
    /\ orders[loc[p].order].cashback_given
    /\ Cardinality(CashbackCredits(loc[p].order)) = 1

\* units of product p held by the orders created so far
SoldQty(p) == SumSeq([i \in 1..Len(orders) |-> Demand(orders[i].items, p)])

\* C3: under concurrent createOrderFromCart calls against a product with stock
\* InitStock, the quantities in the created orders never sum to more than
\* InitStock, and no stock is ever negative.
C3_NoOversell ==
  \A prod \in Products : stock[prod] >= 0 /\ SoldQty(prod) <= InitStock

\* a checkout that passed its own stock check was refused at commit, the stock
\* being sold out by then
C3_Witness ==
  \E p \in Procs, prod \in Products :
    /\ pc[p] = "done" /\ loc[p].op = "createOrderFromCart" /\ loc[p].result = "RpcError"
    /\ stock[prod] = 0 /\ SoldQty(prod) = InitStock

C4_Table ==
  {<<"CREATED", "PAID">>, <<"CREATED", "CANCELLED">>, <<"PAID", "SHIPPED">>,
   <<"PAID", "CANCELLED">>, <<"SHIPPED", "DELIVERED">>, <<"SHIPPED", "RETURNED">>,
   <<"DELIVERED", "RETURNED">>}

C4_IsStatusCall(p) ==
  pc[p] = "done" /\ loc[p].op \in {"updateOrderStatus", "vendorUpdateOrderStatus"}

\* C4: every change of an order's status through updateOrderStatus is an edge of
\* the legal table; DELIVERED requested on a CREATED order fails with
\* InvalidStatusTransition, and any request on a CANCELLED or RETURNED order
\* fails and leaves the status as it was.
C4_StatusMachine ==
  /\ [][\A o \in 1..Len(orders) :
          orders'[o].order_status # orders[o].order_status
            => <<orders[o].order_status, orders'[o].order_status>> \in C4_Table]_vars
  /\ [](\A p \in Procs :
          /\ (C4_IsStatusCall(p) /\ loc[p].op = "updateOrderStatus"
                /\ loc[p].read_status = "CREATED" /\ loc[p].status = "DELIVERED")
               => loc[p].result = "InvalidStatusTransition"
          /\ (C4_IsStatusCall(p) /\ loc[p].read_status \in {"CANCELLED", "RETURNED"})
               => (Threw(p) /\ orders[loc[p].order].order_status = loc[p].read_status))

\* DELIVERED was requested on a CREATED order and refused
C4_Witness ==
  \E p \in Procs :
    /\ C4_IsStatusCall(p) /\ loc[p].read_status = "CREATED" /\ loc[p].status = "DELIVERED"
    /\ loc[p].result = "InvalidStatusTransition"
    /\ orders[loc[p].order].order_status = "CREATED"

\* C5: the stored total_amount of every created order equals the sum over its
\* line items of snapshot price x quantity (no discount is ever applied).
C5_TotalIsLineSum ==
  \A i \in 1..Len(orders) : orders[i].total_amount = LineTotal(orders[i].items)

C6_SameLines(a, b) ==
  /\ Len(a) = Len(b)
  /\ \A i \in 1..Len(a) : a[i].id = b[i].id /\ a[i].quantity = b[i].quantity

\* C6: two order-creation requests that differ only in the price the caller
\* supplies get the same total.
C6_PriceIgnored ==
  \A r1, r2 \in responses :
    (r1.status = 200 /\ r2.status = 200 /\ C6_SameLines(r1.items, r2.items))
      => r1.total = r2.total

\* C7: cancelOrder called on an order in SHIPPED, DELIVERED, CANCELLED or
\* RETURNED fails and leaves every product's stock and the order's status unchanged.
C7_CancelOnlyFromOpen ==
  \A p \in Procs :
    (pc[p] = "done" /\ loc[p].op = "cancelOrder"
       /\ loc[p].read_status \in {"SHIPPED", "DELIVERED", "CANCELLED", "RETURNED"})
      => /\ Threw(p)
         /\ stock = loc[p].stock0
         /\ orders[loc[p].order].order_status = loc[p].read_status

\* C8: cancelling an order in PAID that holds q units of a product raises that
\* product's stock by exactly q, sets the order to CANCELLED and creates no
\* settlement and no cashback row for the order.
C8_CancelPaid ==
  \A p \in Procs :
    (pc[p] = "done" /\ loc[p].op = "cancelOrder" /\ loc[p].read_status = "PAID")
      => /\ loc[p].result = "ok"
         /\ \A prod \in Products :
              stock[prod] = loc[p].stock0[prod] + Demand(orders[loc[p].order].items, prod)
         /\ orders[loc[p].order].order_status = "CANCELLED"
         /\ \A i \in 1..Len(settlements) : settlements[i].order_id # loc[p].order
         /\ \A i \in 1..Len(cashbacks) : cashbacks[i].order_id # loc[p].order

\* a PAID order holding 2 units of X has been cancelled
C8_Witness ==
  \E p \in Procs :
    /\ pc[p] = "done" /\ loc[p].op = "cancelOrder" /\ loc[p].read_status = "PAID"
    /\ loc[p].result = "ok"
    /\ Demand(orders[loc[p].order].items, "X") = 2

\* C9: of two status-changing requests racing on one order exactly one takes
\* effect: a cancelOrder call that found the order open and restored stock is
\* the request that cancelled the order.
C9_RaceSerialized ==
  \A p \in Procs :
    (pc[p] = "done" /\ loc[p].op = "cancelOrder"
       /\ loc[p].read_status \in {"CREATED", "PAID"} /\ loc[p].idx > 1)
      => loc[p].result = "ok"

\* C10: a createOrderFromCart call that throws has left no order row behind
\* (and so has taken no stock).
C10_CreateRollsBack ==
  \A p \in Procs :
    (Threw(p) /\ loc[p].op = "createOrderFromCart") => loc[p].data = 0

\* the order exists, is DELIVERED / has had its cashback given
IsDelivered(o) == o <= Len(orders) /\ orders[o].order_status = "DELIVERED"

CashbackGiven(o) == o <= Len(orders) /\ orders[o].cashback_given

\* C11: every order whose status becomes DELIVERED eventually has its cashback
\* processed (cashback_given becomes true), whichever operation delivered it.
C11_DeliveredGetsCashback ==
  \A o \in 1..MaxSeqOrders : [](IsDelivered(o) => <>CashbackGiven(o))

\* the ids of the settlement rows of an (order, store) pair
SettlementsOf(o, st) ==
  {i \in 1..Len(settlements) : settlements[i].order_id = o /\ settlements[i].store_id = st}

\* C12: the step that takes an order into DELIVERED leaves exactly one settlement
\* row, in status PENDING, for each distinct store among the order's line items and
\* none for any other store; and no (order, store) pair ever has more than one row.
C12_OneSettlementPerStore ==
  /\ [][\A o \in 1..Len(orders) :
          (orders[o].order_status # "DELIVERED" /\ orders'[o].order_status = "DELIVERED")
            => \A st \in {StoreOrder[k] : k \in 1..Len(StoreOrder)} :
                 LET rows == {i \in 1..Len(settlements') :
                                /\ settlements'[i].order_id = o
                                /\ settlements'[i].store_id = st}
                 IN  IF st \in OrderStores(o)
                     THEN /\ Cardinality(rows) = 1
                          /\ \A i \in rows : settlements'[i].status = "PENDING"
                     ELSE rows = {}]_vars
  /\ [](\A o \in 1..Len(orders), st \in {StoreOrder[k] : k \in 1..Len(StoreOrder)} :
          /\ Cardinality(SettlementsOf(o, st)) <= 1
          /\ (orders[o].order_status = "DELIVERED" /\ st \in OrderStores(o))
               => Cardinality(SettlementsOf(o, st)) = 1)

\* an order with items of two stores is DELIVERED and has its two settlements
C12_Witness ==
  \E o \in 1..Len(orders) :
    /\ orders[o].order_status = "DELIVERED"
    /\ Cardinality(OrderStores(o)) = 2
    /\ Len(settlements) = 2

\* C13: a processCashbackForOrder call made when the order's cashback_given is
\* true, or when the order's cashback row is PROCESSED, EXPIRED or FAILED, ends
\* having inserted nothing, sent no wallet-credit rpc and credited nothing.
C13_SettledIsNoOp ==
  \A p \in Procs :
    (/\ pc[p] = "done" /\ loc[p].op = "processCashbackForOrder"
     /\ (loc[p].given0 \/ loc[p].row0 \notin {"none", "ELIGIBLE"}))
      => loc[p].effects = {}

\* C14: a step of processCashbackForOrder that inserts a Cashback row or credits
\* the wallet is taken only while the order is DELIVERED.
C14_OnlyWhenDelivered ==
  [][\A p \in Procs :
       (/\ loc[p].op = "processCashbackForOrder" /\ loc'[p].op = "processCashbackForOrder"
        /\ (loc'[p].effects \ loc[p].effects) \cap {"insert", "credit"} # {})
         => orders[loc[p].order].order_status = "DELIVERED"]_vars

\* the wallet credits made for a cashback row
CreditsOfCashback(cb) ==
  {i \in 1..Len(txs) : /\ txs[i].reference_type = "CASHBACK"
                       /\ txs[i].reference_id = cb
                       /\ txs[i].transaction_type = "CREDIT"}

\* C15: a Cashback record that has left ELIGIBLE keeps its status for ever, it
\* leaves ELIGIBLE only to PROCESSED or EXPIRED, a wallet credit is made for it
\* only in the step that takes it from ELIGIBLE to PROCESSED, and an EXPIRED
\* record has no wallet credit.
C15_OneWayOut ==
  /\ [][\A cb \in 1..Len(cashbacks) :
          /\ cashbacks[cb].status # "ELIGIBLE" => cashbacks'[cb].status = cashbacks[cb].status
          /\ cashbacks'[cb].status \in {"ELIGIBLE", "PROCESSED", "EXPIRED"}
          /\ (\E i \in (Len(txs) + 1)..Len(txs') :
                 txs'[i].reference_type = "CASHBACK" /\ txs'[i].reference_id = cb)
               => (cashbacks[cb].status = "ELIGIBLE" /\ cashbacks'[cb].status = "PROCESSED")]_vars
  /\ [](\A cb \in 1..Len(cashbacks) :
          /\ Cardinality(CreditsOfCashback(cb)) <= 1
          /\ cashbacks[cb].status = "EXPIRED" => CreditsOfCashback(cb) = {})

\* a record is EXPIRED and a call that asked for it to be processed has ended:
\* its rpc was sent and credited nothing
C15_Witness ==
  \E cb \in 1..Len(cashbacks), p \in Procs :
    /\ cashbacks[cb].status = "EXPIRED"
    /\ pc[p] = "done" /\ loc[p].cb = cb
    /\ loc[p].op \in {"processCashbackForOrder", "processCashbackToWallet"}
    /\ loc[p].effects = {"rpc"} \/ loc[p].effects = {"insert", "rpc"}

\* C16: for any interleaving of concurrent addBalance calls, once no call is
\* running on a user's wallet its balance equals the sum of the transactions
\* inserted for it.
C16_NoLostCredit ==
  \A u \in Users :
    (\A p \in Procs : Free(p) \/ loc[p].user # u) => wallets[u].balance = Ledger(u)

\* C17: a useWalletBalance call refused for lack of balance has added no
\* transaction, and after any sequence of addBalance, useWalletBalance and
\* payWithWallet calls no wallet balance is negative.
C17_NeverNegative ==
  /\ \A u \in Users : wallets[u].balance >= 0
  /\ \A p \in Procs :
       (pc[p] = "done" /\ loc[p].op = "useWalletBalance"
          /\ loc[p].result = "InsufficientBalance") => Len(txs) = loc[p].data

\* C18: an addBalance call with amount <= 0 ends with InvalidAmount, and every
\* stored wallet transaction has a positive amount.
C18_CreditsPositive ==
  /\ \A i \in 1..Len(txs) : txs[i].amount > 0
  /\ \A p \in Procs :
       (pc[p] = "done" /\ loc[p].op = "addBalance" /\ loc[p].amount <= 0)
         => loc[p].result = "InvalidAmount"

\* C19: for any interleaving of getUserWallet calls, no user ever has more than
\* one wallet, and every call that has ended has returned a wallet, the single
\* wallet of its user, whose balance is zero.
C19_OneWalletPerUser ==
  /\ \A u \in Users : wallets[u].rows <= 1
  /\ \A p \in Procs :
       (pc[p] = "done" /\ loc[p].op = "getUserWallet")
         => /\ loc[p].result = "ok" /\ loc[p].data = 1
            /\ wallets[loc[p].user].rows = 1
            /\ wallets[loc[p].user].balance = 0

\* two first accesses for the same user have overlapped: both went through the
\* create branch, and both have returned
C19_Witness ==
  /\ \A p \in Procs : pc[p] = "done" /\ loc[p].op = "getUserWallet" /\ loc[p].user = "alice"
  /\ \A p \in Procs : "create_rpc" \in loc[p].effects

VendorOwnsItem(o, v) ==
  /\ StoreOf(v) # "none"
  /\ \E i \in 1..Len(orders[o].items) : store_id[orders[o].items[i].product_id] = StoreOf(v)

C22_RowAsPolicy ==
  [][\A i \in 1..Len(cashbacks') :
       i > Len(cashbacks) =>
         LET c == cashbacks'[i]
         IN  /\ c.amount * 100 = orders[c.order_id].total_amount * 5
             /\ c.percentage = 5
             /\ c.status = "ELIGIBLE"
             /\ c.expires_at = c.created_at + 30
             /\ c.user_id = orders[c.order_id].user_id
             /\ orders[c.order_id].order_status = "DELIVERED"]_vars

\* an order of more than the cheapest product got its row, on a later day
C22_Witness ==
  \E i \in 1..Len(cashbacks) :
    /\ cashbacks[i].amount > 1 /\ cashbacks[i].created_at > 0
    /\ orders[cashbacks[i].order_id].total_amount > 20

\* a hundred times the discount of a coupon on a subtotal: value per cent capped
\* at maximum_discount (PERCENTAGE), the flat value capped at the subtotal (FIXED)
C23_Discount100(code, subtotal) ==
  LET c == coupons[code]
      Min(a, b) == IF a < b THEN a ELSE b
  IN  IF c.discount_type = "PERCENTAGE"
      THEN IF c.maximum_discount > 0
           THEN Min(subtotal * c.discount_value, c.maximum_discount * 100)
           ELSE subtotal * c.discount_value
      ELSE Min(c.discount_value, subtotal) * 100

\* C23: an order-creation request with a valid coupon code is answered with the
\* total subtotal minus discount (PERCENTAGE capped at maximum_discount, FIXED
\* capped at the subtotal).
C23_CouponApplied ==
  \A r \in responses :
    (r.status = 200 /\ r.couponCode \in DOMAIN coupons)
      => r.total * 100 = calculatedTotal(r.items) * 100
                           - C23_Discount100(r.couponCode, calculatedTotal(r.items))

\* a cart line that order creation has to refuse
C24_Refusable(line) == line.quantity > line.stock \/ ~line.is_approved

\* C24: createOrderFromCart on a cart with a line whose quantity exceeds the
\* product's stock, or whose product is unapproved, fails when it resolves the
\* cart: no order is created and the cart is left as it was.
C24_RefusedAtResolve ==
  [][\A p \in Procs :
       (/\ pc[p] = "coc_read" /\ pc'[p] # "coc_read"
        /\ \E i \in 1..Len(GetUserCart(loc[p].user)) :
              C24_Refusable(GetUserCart(loc[p].user)[i]))
         => /\ pc'[p] = "done" /\ loc'[p].result # "ok"
            /\ orders' = orders /\ cart' = cart]_vars

\* C25: every order's order_status is one of CREATED, PAID, SHIPPED, DELIVERED,
\* CANCELLED, RETURNED, an order is CREATED when it is inserted, and every
\* status value orderService.updateOrderStatus takes is a value the CHECK of
\* the orders table accepts.
C25_StatusesAccepted ==
  /\ \A i \in 1..Len(orders) : orders[i].order_status \in OrderStatuses
  /\ \A p \in Procs :
       (loc[p].op = "createOrderFromCart" /\ pc[p] = "coc_clear")
         => orders[loc[p].data].order_status = "CREATED"
  /\ \A p \in Procs :
       loc[p].op = "updateOrderStatus" => OrderStatusCheck(loc[p].status)

\* the place of a status on the vendor's path, in the vocabulary of the audit
\* document (ORDER_PLACED, PROCESSING) and of the services (CREATED, PAID)
C26_Rank(s) ==
  IF s \in {"ORDER_PLACED", "CREATED"} THEN 1
  ELSE IF s \in {"PROCESSING", "PAID"} THEN 2
  ELSE IF s = "SHIPPED" THEN 3
  ELSE IF s = "DELIVERED" THEN 4
  ELSE 0

\* C26: a status update made through vendorService.updateOrderStatus moves the
\* order one step along ORDER_PLACED -> PROCESSING -> SHIPPED -> DELIVERED: no
\* step skipped, none backwards, and a DELIVERED order is not modified.
C26_VendorPath ==
  \A p \in Procs :
    (pc[p] = "done" /\ loc[p].op = "vendorUpdateOrderStatus" /\ loc[p].result = "ok")
      => /\ C26_Rank(loc[p].read_status) \in 1..3
         /\ C26_Rank(loc[p].status) = C26_Rank(loc[p].read_status) + 1

\* C27: a request to a path starting with /admin or /store that carries no valid
\* session is not passed through to the page by the middleware.
C27_ProtectedNeedsSession ==
  \A r \in responses :
    (isProtected(r.path) /\ r.session # "valid") => r.action # "next"

\* the wallet credits made for the cashback rows of an order
C28_CreditsOfOrder(o) ==
  {i \in 1..Len(txs) : /\ txs[i].reference_type = "CASHBACK"
                       /\ txs[i].transaction_type = "CREDIT"
                       /\ txs[i].reference_id \in CashbackOf(o)}

\* C28: whatever the interleaving of concurrent processCashbackForOrder calls on
\* an order, the order has at most one Cashback row and the wallet is credited
\* at most once for it.
C28_OneRowOneCredit ==
  \A o \in 1..Len(orders) :
    /\ Cardinality(CashbackOf(o)) <= 1
    /\ Cardinality(C28_CreditsOfOrder(o)) <= 1

\* two calls on the same delivered order both found no row and went on to
\* insert: one inserted and credited, the other was refused by the store
C28_Witness ==
  \E p, q \in Procs :
    /\ p # q /\ pc[p] = "done" /\ pc[q] = "done"
    /\ loc[p].op = "processCashbackForOrder" /\ loc[q].op = "processCashbackForOrder"
    /\ loc[p].order = loc[q].order
    /\ loc[p].row0 = "none" /\ loc[q].row0 = "none"
    /\ {"insert", "credit"} \subseteq loc[p].effects
    /\ loc[q].result = "UniqueViolation"
    /\ Cardinality(C28_CreditsOfOrder(loc[p].order)) = 1

\* C29: whenever processCashbackForOrder returns a Cashback record without
\* raising an error, the wallet credit for that cashback has been applied.
C29_ReturnedMeansCredited ==
  \A p \in Procs :
    (/\ pc[p] = "done" /\ loc[p].op = "processCashbackForOrder"
     /\ loc[p].result = "ok" /\ loc[p].cb \in 1..Len(cashbacks))
      => CreditsOfCashback(loc[p].cb) # {}

\* the stock of every product is what it was when the call began plus the
\* quantities of the order's lines
C30_Restored(p) ==
  \A prod \in Products :
    stock[prod] = loc[p].stock0[prod] + Demand(orders[loc[p].order].items, prod)

\* C30: when cancelOrder has ended, with success or with an error, either no
\* stock was touched or the stock of every line was restored, and the stock was
\* restored if and only if the order is CANCELLED.
C30_AllOrNothing ==
  \A p \in Procs :
    (pc[p] = "done" /\ loc[p].op = "cancelOrder")
      => /\ C30_Restored(p) \/ stock = loc[p].stock0
         /\ C30_Restored(p) <=> orders[loc[p].order].order_status = "CANCELLED"

\* C31: in the step that ends a payWithWallet call, with success or with an
\* error, the call has debited the wallet if and only if that step made the
\* order PAID, and a call whose debit was refused leaves the orders as they were.
C31_PaidIffDebited ==
  [][\A p \in Procs :
       (loc[p].op = "payWithWallet" /\ pc[p] # "done" /\ pc'[p] = "done")
         => /\ "debit" \in loc'[p].effects
                 <=> /\ orders[loc[p].order].order_status # "PAID"
                     /\ orders'[loc[p].order].order_status = "PAID"
            /\ "debit" \notin loc'[p].effects => orders' = orders]_vars

\* C32: in the step in which addBalance returns its CREDIT transaction, the
\* balance of the wallet becomes the balance the call read plus the amount: a
\* call whose balance update failed does not return as a success with its
\* transaction left in the log.
C32_CreditedOrFailed ==
  [][\A p \in Procs :
       (/\ loc[p].op = "addBalance" /\ pc[p] # "done"
        /\ pc'[p] = "done" /\ loc'[p].result = "ok")
         => wallets'[loc[p].user].balance = loc[p].balance + loc[p].amount]_vars

\* C33: the step in which createOrderFromCart clears the cart and returns
\* removes the cart lines of the products that became items of the created
\* order and leaves every other line of the user, and every other cart, as it is.
C33_ClearsConsumedLines ==
  [][\A p \in Procs :
       (/\ loc[p].op = "createOrderFromCart" /\ pc[p] = "coc_clear"
        /\ pc'[p] = "done" /\ loc'[p].result = "ok")
         => \A u \in Users, prod \in Products :
              cart'[u][prod] =
                IF u = loc[p].user /\ Demand(orders[loc[p].data].items, prod) > 0
                THEN 0 ELSE cart[u][prod]]_vars

\* C34: a Cashback record becomes EXPIRED only from ELIGIBLE and only by a
\* markCashbackAsExpired call made on a day after its expires_at.
C34_ExpiresOnlyWhenStale ==
  [][\A cb \in 1..Len(cashbacks) :
       (cashbacks[cb].status # "EXPIRED" /\ cashbacks'[cb].status = "EXPIRED")
         => /\ cashbacks[cb].status = "ELIGIBLE"
            /\ \E p \in Procs :
                 /\ loc'[p].op = "markCashbackAsExpired" /\ loc'[p].cb = cb
                 /\ loc'[p].data > cashbacks[cb].expires_at]_vars

\* p and q have both ended a requestPayout call for the same settlement, made
\* as its owner and sent while the settlement was PENDING
C35_Raced(p, q) ==
  /\ p # q /\ pc[p] = "done" /\ pc[q] = "done"
  /\ loc[p].op = "requestPayout" /\ loc[q].op = "requestPayout"
  /\ loc[p].data = loc[q].data /\ loc[p].data <= Len(settlements)
  /\ loc[p].user = settlements[loc[p].data].vendor_id /\ loc[q].user = loc[p].user
  /\ loc[p].row0 = "PENDING" /\ loc[q].row0 = "PENDING"

C37_QuantityIsSum ==
  [][\A p \in Procs :
       (loc[p].op = "addToCart" /\ pc[p] # "done" /\ pc'[p] = "done")
         => IF loc'[p].result = "ok"
            THEN cart' = [cart EXCEPT ![loc[p].user][loc[p].items[1].product_id] =
                                        @ + loc[p].items[1].quantity]
            ELSE cart' = cart]_vars

\* C38: no step of updateOrderStatus, confirmDelivery, cancelOrder,
\* payWithWallet or processCashbackForOrder removes an order or changes the
\* total_amount, the line items or the user of an order that exists.
C38_OrderFrozen ==
  [][/\ Len(orders') >= Len(orders)
     /\ \A o \in 1..Len(orders) :
          /\ orders'[o].total_amount = orders[o].total_amount
          /\ orders'[o].items = orders[o].items
          /\ orders'[o].user_id = orders[o].user_id]_vars

\* an order was paid from the wallet, delivered and given its cashback, and a
\* cancelOrder call on it has ended
C38_Witness ==
  /\ Len(orders) >= 1 /\ orders[1].order_status = "DELIVERED" /\ orders[1].cashback_given
  /\ \E i \in 1..Len(txs) : txs[i].transaction_type = "DEBIT" /\ txs[i].reference_id = 1
  /\ pc[1] = "done" /\ loc[1].op = "cancelOrder" /\ loc[1].order = 1
  /\ orders[1].total_amount = LineTotal(orders[1].items)

\* units of product prod held by the orders that are not CANCELLED
C39_HeldQty(prod) ==
  SumSeq([i \in 1..Len(orders) |->
            IF orders[i].order_status = "CANCELLED" THEN 0 ELSE Demand(orders[i].items, prod)])

\* C39: whenever no call is running, the stock of every product plus the
\* quantities of it held in orders that are not CANCELLED is the initial stock.
C39_StockConserved ==
  (\A p \in Procs : Free(p))
    => \A prod \in Products : stock[prod] + C39_HeldQty(prod) = InitStock

====
